---- MODULE Spec2Model ----
(***************************************************************************)
(* python-documentcloud: documentcloud/documents.py                        *)
(*                                                                         *)
(* A model of DocumentClient.upload_directory (the bulk upload pipeline),  *)
(* DocumentClient.upload / _upload_file (the single-file path) and of the  *)
(* asset accessors of Document (__getattr__, the get_*_url methods and     *)
(* _get_url).                                                              *)
(*                                                                         *)
(* Strings the code takes apart (paths, extensions, attribute names) are   *)
(* sequences of tokens: the path "a.pdf" is <<"a", ".", "pdf">>, the       *)
(* attribute get_full_text_url is <<"get", "full", "text", "url">>.        *)
(* Python's None and the empty string are both the empty sequence: the     *)
(* code only ever tests them for truth or filters them out.                *)
(***************************************************************************)
EXTENDS Integers, Sequences, FiniteSets, TLC

VARIABLES
    pc,             \* position of the caller: "idle", a step of a running call, "done"
    op,             \* the operation called: "none", "upload_directory", "upload", "getattr"
    requests,       \* every remote call issued so far, in order: its method, url,
                    \* body (json) and final status, and whether it went through
                    \* the authenticated client (auth); batch, files and response
                    \* record the group, the local files and the answer it is for
    outcome,        \* what the caller got: [kind |-> "none" | "return" | "raise", value]
    directory,      \* upload_directory: the files under the root, in discovery order
    handle_errors,  \* upload_directory: the failure policy flag
    path_list,      \* upload_directory: the files kept by the filter
    groups,         \* upload_directory: grouper(path_list, BULK_LIMIT)
    i,              \* upload_directory: index of the current group (from 1)
    file_paths,     \* upload_directory: the current group without its padding
    create_json,    \* the records of the last successful create call
    j,              \* upload_directory: index of the next (url, file) pair to upload
    obj_list,       \* upload_directory: the records accumulated so far
    next_id,        \* the service's next free document id
    log,            \* logger.info lines about skipped batches and items
    pdf,            \* upload: the document given (a URL, a path or a file object)
    document,       \* getattr: the Document whose attribute is read
    attr,           \* getattr: the attribute name, and whether the caller calls
                    \* the value it gets
    fetch,          \* getattr: the (url, fmt) of the pending _get_url call
    highlights,     \* mentions: the highlights field of the document, if it has one
    given,          \* properties: the user and organization values of the record
                    \* the document was built from (a raw id or an embedded object)
    _user,          \* properties: the cached User, or None
    user_id,        \* properties: the id of the document's user
    _organization,  \* properties: the cached Organization, or None
    organization_id,\* properties: the id of the document's organization
    accesses,       \* properties: the finished reads of document.user and
                    \* document.organization, in order: the field, whether the
                    \* read issued a fetch, and what the caller got
    args,           \* _format_upload_parameters: the name and the keyword
                    \* arguments of the call
    warnings        \* the parameters warnings.warn was called for, in order

vars == <<pc, op, requests, outcome, directory, handle_errors, path_list, groups,
          i, file_paths, create_json, j, obj_list, next_id, log, pdf, document,
          attr, fetch, highlights, given, _user, user_id, _organization,
          organization_id, accesses, args, warnings>>

dirVars == <<directory, handle_errors, path_list, groups, i, file_paths, j, obj_list, log>>

attrVars == <<document, attr, fetch>>

lazyVars == <<given, _user, user_id, _organization, organization_id, accesses>>

fmtVars == <<args, warnings>>

propVars == <<highlights, lazyVars, fmtVars>>

(***************************************************************************)
(* Bounds of the model.                                                    *)
(***************************************************************************)
\* Largest number of files under the uploaded root.
MaxFiles == 3

\* documentcloud.constants.BULK_LIMIT, scaled down so that a run has several
\* groups and a short last group.
BULK_LIMIT == 2

None == <<>>

(***************************************************************************)
(* Sequence helpers.                                                       *)
(***************************************************************************)
RECURSIVE Flatten(_)
Flatten(ss) == IF ss = <<>> THEN <<>> ELSE Head(ss) \o Flatten(Tail(ss))

Last(s) == s[Len(s)]

Range(s) == {s[k] : k \in DOMAIN s}

\* All sequences without repetition of at most n elements of S.
DistinctSeqs(S, n) ==
    UNION {{s \in [1..k -> S] : \A a, b \in 1..k : a # b => s[a] # s[b]} : k \in 0..n}

\* Greatest k with s[k] = t, 0 when there is none (str.rfind).
LastIndexOf(s, t) ==
    LET hits == {k \in 1..Len(s) : s[k] = t}
    IN  IF hits = {} THEN 0 ELSE CHOOSE k \in hits : \A m \in hits : m <= k

(***************************************************************************)
(* The local file system: a file is a path, the MIME type libmagic finds   *)
(* in its bytes, and its size in bytes.  The names and the contents are    *)
(* independent.                                                            *)
(***************************************************************************)
Files ==
    { [path |-> <<"a", ".", "pdf">>,              mime |-> "application/pdf",
       size |-> 502 * 1024 * 1024],
      [path |-> <<"docs", "/", "b", ".", "PDF">>, mime |-> "image/png",
       size |-> 4096],
      [path |-> <<"c", ".", "exe">>,              mime |-> "application/pdf",
       size |-> 4096],
      [path |-> <<"d", ".", "txt">>,              mime |-> "inode/x-empty",
       size |-> 0],
      [path |-> <<"docs", "/", "e", ".", "txt">>, mime |-> "text/plain",
       size |-> 501 * 1024 * 1024],
      [path |-> <<"README">>,                     mime |-> "text/plain",
       size |-> 4096] }

Directories == DistinctSeqs(Files, MaxFiles)

\* The part of the allow-list the files above can meet.
supported_extensions ==
    { <<".", "pdf">>, <<".", "txt">>, <<".", "gif">>, <<".", "jpg">>, <<".", "docx">> }

\* str.lower on one token.
LowerToken(t) ==
    CASE t = "PDF" -> "pdf"
      [] t = "TXT" -> "txt"
      [] t = "EXE" -> "exe"
      [] OTHER -> t

lower(s) == [k \in DOMAIN s |-> LowerToken(s[k])]

RECURSIVE lstrip(_, _)
\* str.lstrip(chars) for a single character.
lstrip(s, c) == IF s # <<>> /\ Head(s) = c THEN lstrip(Tail(s), c) ELSE s

\* os.path.splitext(path)[1]: from the last dot of the last component, unless
\* that dot starts the component.
splitext_ext(path) ==
    LET sep == LastIndexOf(path, "/")
        dot == LastIndexOf(path, ".")
    IN  IF dot > sep + 1 THEN SubSeq(path, dot, Len(path)) ELSE <<>>

\* magic.from_file(filepath, mime=True)
from_file(dir, filepath) == (CHOOSE f \in Range(dir) : f.path = filepath).mime

\* mimetypes.guess_extension(content_type); None for a type it does not know.
guess_extension(content_type) ==
    CASE content_type = "application/pdf" -> <<".", "pdf">>
      [] content_type = "text/plain"      -> <<".", "txt">>
      [] content_type = "image/png"       -> <<".", "png">>
      [] OTHER                            -> None

\* DocumentClient._get_valid_extension
_get_valid_extension(dir, filepath) ==
    LET extension == guess_extension(from_file(dir, filepath))
    IN  IF extension # None /\ lower(extension) \in supported_extensions
        THEN extension
        ELSE <<>>

\* DocumentClient._get_title
_get_title(name) ==
    LET sep  == LastIndexOf(name, "/")
        base == SubSeq(name, sep + 1, Len(name))
        dot  == LastIndexOf(base, ".")
    IN  IF dot = 0 THEN base ELSE SubSeq(base, 1, dot - 1)

\* DocumentClient._collect_files
_collect_files(dir) == [k \in DOMAIN dir |-> dir[k].path]

\* The filter of upload_directory: the files kept for upload.
KeepFile(file) == lower(splitext_ext(file)) \in supported_extensions

FilterFiles(dir) == SelectSeq(_collect_files(dir), KeepFile)

\* toolbox.grouper(iterable, n): groups of exactly n, the last padded with None.
grouper(s, n) ==
    [g \in 1..((Len(s) + n - 1) \div n) |->
        [k \in 1..n |-> IF (g - 1) * n + k <= Len(s) THEN s[(g - 1) * n + k] ELSE None]]

\* Variant: the padding is removed by dropping the last element of the group.
StripPadding_DropLast(group) == SubSeq(group, 1, Len(group) - 1)

NotNone(p) == p # None

\* file_paths = [p for p in file_paths if p is not None]
StripPadding(group) == SelectSeq(group, NotNone)

(***************************************************************************)
(* The remote service and the HTTP layer.                                  *)
(***************************************************************************)
\* Final HTTP statuses of a remote call.
Statuses == {200, 403}

\* client.raise_for_status(response): raises APIError unless the status is a
\* success; client.get and client.post apply it to every response.
raises_for_status(status) == status >= 400

\* The records a bulk create answers with, one per submitted document, each
\* with a fresh id and a one-time storage target.
create_response(documents, first_id) ==
    [k \in DOMAIN documents |->
        [id            |-> first_id + k - 1,
         presigned_url |-> <<"https://storage/", ToString(first_id + k - 1)>>,
         title         |-> documents[k].title]]

\* Document(client, dict_)
Document(dict_) == [class |-> "Document", fields |-> dict_]

NoOutcome == [kind |-> "none", value |-> <<>>]
Return(v) == [kind |-> "return", value |-> v]
Raise(exc) == [kind |-> "raise", value |-> exc]

(***************************************************************************)
(* DocumentClient.upload_directory                                         *)
(***************************************************************************)
\* The request body of the create call of a group.
CreateBody(dir, paths) ==
    [k \in DOMAIN paths |->
        [title              |-> _get_title(paths[k]),
         original_extension |-> lstrip(_get_valid_extension(dir, paths[k]), ".")]]

\* Variant: the pairs are gone through twice.
UploadPairs_Twice(records, paths) ==
    LET n == IF Len(records) < Len(paths) THEN Len(records) ELSE Len(paths)
    IN  [k \in 1..(2 * n) |->
            [url       |-> records[((k - 1) % n) + 1].presigned_url,
             file_path |-> paths[((k - 1) % n) + 1]]]

\* Variant: the URLs are paired with the files one place further on.
UploadPairs_Shifted(records, paths) ==
    LET n == IF Len(records) < Len(paths) THEN Len(records) ELSE Len(paths)
    IN  [k \in 1..n |->
            [url |-> records[k].presigned_url, file_path |-> paths[(k % n) + 1]]]

\* zip(presigned_urls, file_paths)
UploadPairs(records, paths) ==
    [k \in 1..(IF Len(records) < Len(paths) THEN Len(records) ELSE Len(paths)) |->
        [url |-> records[k].presigned_url, file_path |-> paths[k]]]

\* return [Document(self.client, d) for d in obj_list]
Result(objs) == Return([k \in DOMAIN objs |-> Document(objs[k])])

\* Variant: a failed storage upload is skipped whatever the flag says.
SwallowUpload_Always == TRUE

\* Variant: a failed process call is raised whatever the flag says.
SwallowProcess_Never == FALSE

\* Variant: obj_list = create_json, the earlier groups' records are dropped.
Extend_Replace(objs, records) == records

\* except (APIError, RequestException): `if handle_errors:` of the create call,
\* the storage upload and the process call.
SwallowCreate == handle_errors

SwallowUpload == handle_errors

SwallowProcess == handle_errors

\* obj_list.extend(create_json)
Extend(objs, records) == objs \o records

\* doc_ids = [j["id"] for j in create_json]
DocIds(records) == [k \in DOMAIN records |-> records[k].id]

\* The call: scan, filter and group the files; no remote call yet.  With no
\* group the loop body never runs and the call returns at once.
upload_directory(dir, flag) ==
    /\ pc = "idle"
    /\ op' = "upload_directory"
    /\ directory' = dir
    /\ handle_errors' = flag
    /\ path_list' = FilterFiles(dir)
    /\ groups' = grouper(path_list', BULK_LIMIT)
    /\ obj_list' = <<>>
    /\ j' = 0
    /\ IF groups' = <<>>
       THEN /\ i' = 0
            /\ file_paths' = <<>>
            /\ pc' = "done"
            /\ outcome' = Result(<<>>)
       ELSE /\ i' = 1
            /\ file_paths' = StripPadding(groups'[1])
            /\ pc' = "create"
            /\ outcome' = outcome
    /\ UNCHANGED <<requests, create_json, next_id, log, pdf, attrVars, propVars>>

\* Variant: `break` in place of `continue`, the run ends with the group.
NextGroup_Break(objs) ==
    /\ pc' = "done"
    /\ outcome' = Result(objs)
    /\ UNCHANGED <<i, file_paths>>

\* `continue`, or the end of the loop body: the next group, or the return.
NextGroup(objs) ==
    IF i < Len(groups)
    THEN /\ i' = i + 1
         /\ file_paths' = StripPadding(groups[i + 1])
         /\ pc' = "create"
         /\ outcome' = outcome
    ELSE /\ pc' = "done"
         /\ outcome' = Result(objs)
         /\ UNCHANGED <<i, file_paths>>

\* Variant: the inner loop ends after one pair.
NextUpload_SkipRest(n) ==
    /\ j' = j + 1
    /\ pc' = "process"

\* The inner `continue`, or the end of the inner loop body: the next pair of
\* the n pairs, or the process call.
NextUpload(n) ==
    /\ j' = j + 1
    /\ pc' = IF j < n THEN "upload" ELSE "process"

\* An exception leaves upload_directory.
Abort(exc) ==
    /\ pc' = "done"
    /\ outcome' = Raise(exc)
    /\ UNCHANGED <<i, file_paths>>

\* Lines 513-540: the bulk create call of the current group.
CreateDocuments(status) ==
    /\ pc = "create"
    /\ LET documents == CreateBody(directory, file_paths)
       IN  requests' = Append(requests,
               [method |-> "POST", url |-> <<"documents/">>, json |-> documents,
                status |-> status, auth |-> TRUE, batch |-> i, files |-> file_paths,
                response |-> IF raises_for_status(status) THEN <<>>
                             ELSE create_response(documents, next_id)])
    /\ IF raises_for_status(status)
       THEN /\ UNCHANGED <<create_json, obj_list, next_id, j>>
            /\ IF SwallowCreate
               THEN /\ log' = Append(log, [what |-> "create", batch |-> i, files |-> file_paths])
                    /\ NextGroup(obj_list)
               ELSE /\ Abort("APIError")
                    /\ log' = log
       ELSE /\ create_json' = create_response(CreateBody(directory, file_paths), next_id)
            /\ next_id' = next_id + Len(file_paths)
            /\ obj_list' = Extend(obj_list, create_json')
            /\ j' = 1
            /\ pc' = "upload"
            /\ UNCHANGED <<outcome, i, file_paths, log>>
    /\ UNCHANGED <<op, directory, handle_errors, path_list, groups, pdf, attrVars, propVars>>

\* Lines 542-558: the storage upload of the next (url, file) pair.
UploadFile(status) ==
    /\ pc = "upload"
    /\ LET pairs == UploadPairs(create_json, file_paths)
           pair  == pairs[j]
       IN  /\ requests' = Append(requests,
                  [method |-> "PUT", url |-> pair.url, json |-> <<>>,
                   status |-> status, auth |-> FALSE, batch |-> i,
                   files |-> <<pair.file_path>>,
                   response |-> <<>>])
           /\ IF raises_for_status(status) /\ ~SwallowUpload
              THEN /\ Abort("APIError")
                   /\ UNCHANGED <<j, log>>
              ELSE /\ log' = IF raises_for_status(status)
                             THEN Append(log, [what |-> "upload", batch |-> i,
                                               files |-> <<pair.file_path>>])
                             ELSE log
                   /\ NextUpload(Len(pairs))
                   /\ UNCHANGED <<outcome, i, file_paths>>
    /\ UNCHANGED <<op, directory, handle_errors, path_list, groups, create_json,
                   obj_list, next_id, pdf, attrVars, propVars>>

\* Lines 562-574: the bulk process call of the current group.
ProcessDocuments(status) ==
    /\ pc = "process"
    /\ requests' = Append(requests,
           [method |-> "POST", url |-> <<"documents/process/">>,
            json |-> DocIds(create_json), status |-> status, auth |-> TRUE, batch |-> i,
            files |-> file_paths, response |-> <<>>])
    /\ IF raises_for_status(status)
       THEN IF SwallowProcess
            THEN /\ log' = Append(log, [what |-> "process", batch |-> i, files |-> file_paths])
                 /\ NextGroup(obj_list)
            ELSE /\ Abort("APIError")
                 /\ log' = log
       ELSE /\ NextGroup(obj_list)
            /\ log' = log
    /\ UNCHANGED <<op, directory, handle_errors, path_list, groups, create_json,
                   obj_list, next_id, j, pdf, attrVars, propVars>>

(***************************************************************************)
(* DocumentClient.upload, _upload_url and _upload_file                     *)
(***************************************************************************)
\* Sizes in bytes of the local files given to upload.
Sizes == {0, 501 * 1024 * 1024 - 1, 501 * 1024 * 1024, 502 * 1024 * 1024}

\* What upload is given: a URL, a path, or an open file object (for which
\* os.fstat may fail).
Pdfs ==
    {[kind |-> "url",
      name |-> <<"https:", "/", "/", "example", ".", "org", "/", "report", ".", "pdf">>,
      size |-> 0, fstat |-> TRUE]}
    \cup [kind : {"path"}, name : {<<"tests", "/", "test", ".", "pdf">>},
          size : Sizes, fstat : {TRUE}]
    \cup [kind : {"file"}, name : {<<"tests", "/", "test", ".", "pdf">>},
          size : Sizes, fstat : BOOLEAN]

\* toolbox.is_url
is_url(p) == p.kind = "url"

\* Lines 260-266: the size upload compares with the limit.
size_of(p) == IF p.kind = "file" /\ ~p.fstat THEN 0 ELSE p.size

\* Variant: the size is taken in megabytes and compared with the byte limit.
TooBig_Megabytes(size) == size \div (1024 * 1024) >= 501 * 1024 * 1024

\* Line 271: the size check.
TooBig(size) == size >= 501 * 1024 * 1024

\* Keyword arguments are a mapping from their names to their values.
NoKwargs == [k \in {} |-> <<>>]

\* Variant: `secure` is on the allowed list.
allowed_parameters_WithSecure ==
    { "access", "description", "language", "original_extension", "related_article",
      "publish_at", "published_url", "source", "title", "data", "force_ocr",
      "projects", "delayed_index", "secure" }

\* Lines 281-295.
allowed_parameters ==
    { "access", "description", "language", "original_extension", "related_article",
      "publish_at", "published_url", "source", "title", "data", "force_ocr",
      "projects", "delayed_index" }

\* Line 297.
ignored_parameters == <<"secure">>

\* _format_upload_parameters, lines 299-315: the default title, then
\* projects from project, then the allowed arguments over both.
_format_upload_parameters(name, kwargs) ==
    LET given_allowed == allowed_parameters \cap DOMAIN kwargs
        keys == {"title"}
                \cup (IF "project" \in DOMAIN kwargs THEN {"projects"} ELSE {})
                \cup given_allowed
    IN  [param \in keys |->
            IF param \in given_allowed THEN kwargs[param]
            ELSE IF param = "title" THEN _get_title(name)
            ELSE <<kwargs["project"]>>]

\* Lines 308-313: one warning for each ignored parameter given.
warned(kwargs) ==
    SelectSeq(ignored_parameters, LAMBDA param : param \in DOMAIN kwargs)

\* The names and the keyword arguments _format_upload_parameters is called with.
Names ==
    { <<"tests", "/", "test", ".", "pdf">>, <<"a", ".", "tar", ".", "gz">>,
      <<"README">>, <<"docs", ".", "d", "/", "x">> }

KwargNames == {"title", "project", "projects", "access", "secure", "foo"}

kwargs_of(given_names, alt) ==
    [k \in given_names |->
        CASE k = "title"    -> IF alt THEN <<"Report">> ELSE <<>>
          [] k = "project"  -> 2
          [] k = "projects" -> IF alt THEN <<3, 4>> ELSE <<>>
          [] k = "access"   -> <<"private">>
          [] k = "secure"   -> TRUE
          [] OTHER          -> <<"bar">>]

Kwargs == {kwargs_of(S, alt) : S \in SUBSET KwargNames, alt \in BOOLEAN}

\* A call of _format_upload_parameters(name, **kwargs).
FormatUploadParameters(name, kwargs) ==
    /\ pc = "idle"
    /\ op' = "format"
    /\ args' = [name |-> name, kwargs |-> kwargs]
    /\ warnings' = warned(kwargs)
    /\ outcome' = Return(_format_upload_parameters(name, kwargs))
    /\ pc' = "done"
    /\ UNCHANGED <<requests, create_json, next_id, pdf, dirVars, attrVars, highlights,
                   lazyVars>>

\* A request of the single-file path (no group, no directory).
Request(method, url, json, status, auth, files, response) ==
    [method |-> method, url |-> url, json |-> json, status |-> status, auth |-> auth,
     batch |-> 0, files |-> files, response |-> response]

\* upload(pdf): dispatch on the argument and check the size; no remote call yet.
upload(p) ==
    /\ pc = "idle"
    /\ op' = "upload"
    /\ pdf' = p
    /\ IF is_url(p)
       THEN /\ pc' = "upload_url"
            /\ outcome' = outcome
       ELSE IF TooBig(size_of(p))
            THEN /\ pc' = "done"
                 /\ outcome' = Raise("ValueError")
            ELSE /\ pc' = "upload_file"
                 /\ outcome' = outcome
    /\ UNCHANGED <<requests, create_json, next_id, dirVars, attrVars, propVars>>

\* _upload_url: one create call carrying the URL.
_upload_url(status) ==
    /\ pc = "upload_url"
    /\ LET params   == _format_upload_parameters(pdf.name, NoKwargs)
           response == create_response(<<params>>, next_id)
       IN  /\ requests' = Append(requests,
                  Request("POST", <<"documents/">>, <<params>>, status, TRUE,
                          <<pdf.name>>,
                          IF raises_for_status(status) THEN <<>> ELSE response))
           /\ IF raises_for_status(status)
              THEN /\ outcome' = Raise("APIError")
                   /\ UNCHANGED <<create_json, next_id>>
              ELSE /\ outcome' = Return(Document(response[1]))
                   /\ create_json' = response
                   /\ next_id' = next_id + 1
    /\ pc' = "done"
    /\ UNCHANGED <<op, pdf, dirVars, attrVars, propVars>>

\* _upload_file, lines 331-336: the create call.
UploadFileCreate(status) ==
    /\ pc = "upload_file"
    /\ LET params   == _format_upload_parameters(pdf.name, NoKwargs)
           response == create_response(<<params>>, next_id)
       IN  /\ requests' = Append(requests,
                  Request("POST", <<"documents/">>, <<params>>, status, TRUE,
                          <<pdf.name>>,
                          IF raises_for_status(status) THEN <<>> ELSE response))
           /\ IF raises_for_status(status)
              THEN /\ outcome' = Raise("APIError")
                   /\ pc' = "done"
                   /\ UNCHANGED <<create_json, next_id>>
              ELSE /\ create_json' = response
                   /\ next_id' = next_id + 1
                   /\ pc' = "upload_put"
                   /\ outcome' = outcome
    /\ UNCHANGED <<op, pdf, dirVars, attrVars, propVars>>

\* _upload_file, lines 337-338: the storage upload.  The response of the
\* retry session is assigned and never looked at.
UploadFilePut(status) ==
    /\ pc = "upload_put"
    /\ requests' = Append(requests,
           Request("PUT", create_json[1].presigned_url, <<>>, status, FALSE,
                   <<pdf.name>>, <<>>))
    /\ pc' = "upload_process"
    /\ UNCHANGED <<op, outcome, pdf, create_json, next_id, dirVars, attrVars, propVars>>

\* _upload_file, lines 340-346: the process call and the return.
UploadFileProcess(status) ==
    /\ pc = "upload_process"
    /\ requests' = Append(requests,
           Request("POST", <<"documents/", ToString(create_json[1].id), "/process/">>,
                   [force_ocr |-> FALSE], status, TRUE, <<pdf.name>>, <<>>))
    /\ outcome' = IF raises_for_status(status)
                  THEN Raise("APIError")
                  ELSE Return(Document(create_json[1]))
    /\ pc' = "done"
    /\ UNCHANGED <<op, pdf, create_json, next_id, dirVars, attrVars, propVars>>

(***************************************************************************)
(* Document: the asset accessors.                                          *)
(***************************************************************************)
\* Largest page_count of a document.
MaxPages == 2

\* Python's recursion limit, in nested __getattr__ calls.
MaxLookups == 4

\* client.base_uri
base_uri == "https://api.example.org/api/"

\* The asset_url of a document: on the API's host, on the API's host at
\* another port, or on another host.
AssetUrls ==
    {"https://api.example.org/files/", "https://api.example.org:8443/",
     "https://assets.example.org/"}

Documents == [id : {7}, slug : {"report"}, asset_url : AssetUrls, page_count : 0..MaxPages]

\* urlparse(url).netloc; a URL is a sequence of pieces, the first holding
\* the scheme and the host.
netloc(url) ==
    LET first == IF url = <<>> THEN "" ELSE Head(url)
    IN  CASE first = "https://api.example.org/api/"   -> "api.example.org"
          [] first = "https://api.example.org/files/" -> "api.example.org"
          [] first = "https://api.example.org:8443/"  -> "api.example.org:8443"
          [] first = "https://assets.example.org/"    -> "assets.example.org"
          [] OTHER                                    -> ""

\* The attribute names read, as "_"-separated tokens.
Stems ==
    { <<"full", "text">>, <<"page", "text">>, <<"json", "text">>, <<"pdf">>,
      <<"page", "position", "json">>, <<"image">>,
      <<"thumbnail", "image">>, <<"small", "image">>, <<"normal", "image">>,
      <<"large", "image">>, <<"huge", "image">>,
      <<"bogus", "field">>, <<"asset">>, <<"id">>, <<"slug">> }

AttrNames ==
    { p \o st \o su : p \in {<<>>, <<"get">>}, st \in Stems,
                      su \in {<<>>, <<"url">>, <<"list">>, <<"url", "list">>} }

\* attr.startswith(t + "_") and attr.endswith("_" + suffix)
startswith(a, t) == Len(a) >= 2 /\ Head(a) = t

endswith(a, suffix) ==
    /\ Len(a) > Len(suffix)
    /\ SubSeq(a, Len(a) - Len(suffix) + 1, Len(a)) = suffix

\* The URL templates, lines 188-215.
get_full_text_url(d) ==
    <<d.asset_url, "documents/", ToString(d.id), "/", d.slug, ".txt">>

get_page_text_url(d, page) ==
    <<d.asset_url, "documents/", ToString(d.id), "/pages/", d.slug, "-p",
      ToString(page), ".txt">>

get_page_position_json_url(d, page) ==
    <<d.asset_url, "documents/", ToString(d.id), "/pages/", d.slug, "-p",
      ToString(page), ".position.json">>

get_json_text_url(d) ==
    <<d.asset_url, "documents/", ToString(d.id), "/", d.slug, ".txt.json">>

get_pdf_url(d) ==
    <<d.asset_url, "documents/", ToString(d.id), "/", d.slug, ".pdf">>

get_image_url(d, page, size) ==
    <<d.asset_url, "documents/", ToString(d.id), "/pages/", d.slug, "-p",
      ToString(page), "-", size, ".gif">>

\* Variant: range(1, self.page_count), the last page is left out.
get_image_url_list_Short(d, size) ==
    [page \in 1..(d.page_count - 1) |-> get_image_url(d, page, size)]

get_image_url_list(d, size) ==
    [page \in 1..d.page_count |-> get_image_url(d, page, size)]

\* The methods Document defines: found without __getattr__.
MethodNames ==
    { <<"get", "full", "text", "url">>, <<"get", "page", "text", "url">>,
      <<"get", "page", "position", "json", "url">>, <<"get", "json", "text", "url">>,
      <<"get", "pdf", "url">>, <<"get", "image", "url">>,
      <<"get", "image", "url", "list">> }

\* The fields of the API's record, stored on the object.
StoredFields ==
    { <<"id">>, <<"slug">>, <<"asset", "url">>, <<"page", "count">>, <<"title">> }

\* A value an attribute read or a call yields: t is its type, x what it holds.
Value(t, x) == [t |-> t, x |-> x]

Callables == {"method", "partial", "lambda"}

Errors == {"AttributeError", "TypeError", "RecursionError"}

\* p_image, lines 81-83: the size and the list group of a match, or no match.
Sizes_image == {"thumbnail", "small", "normal", "large"}

\* Variant: the pattern without its optional list group.
p_image_match_NoList(a) ==
    IF /\ Len(a) = 4
       /\ a[1] = "get" /\ a[2] \in Sizes_image /\ a[3] = "image" /\ a[4] = "url"
    THEN [matched |-> TRUE, size |-> a[2], list |-> FALSE]
    ELSE [matched |-> FALSE, size |-> "", list |-> FALSE]

p_image_match(a) ==
    IF /\ Len(a) \in {4, 5}
       /\ a[1] = "get" /\ a[2] \in Sizes_image /\ a[3] = "image" /\ a[4] = "url"
       /\ Len(a) = 5 => a[5] = "list"
    THEN [matched |-> TRUE, size |-> a[2], list |-> Len(a) = 5]
    ELSE [matched |-> FALSE, size |-> "", list |-> FALSE]

\* Variant: the `_text` test wins over the `_json_text` test.
fmt_of_TextFirst(a) ==
    LET text == endswith(a, <<"text">>)
        json == endswith(a, <<"json">>) \/ endswith(a, <<"json", "text">>)
    IN  IF text THEN "text" ELSE IF json THEN "json" ELSE "None"

\* fmt, lines 86-88.
fmt_of(a) ==
    LET text == endswith(a, <<"text">>)
        json == endswith(a, <<"json">>) \/ endswith(a, <<"json", "text">>)
    IN  IF json THEN "json" ELSE IF text THEN "text" ELSE "None"

\* Calling, without arguments, a method or a partial of the document.
CallPlain(d, v) ==
    IF v.t = "method"
    THEN CASE v.x = <<"get", "full", "text", "url">> -> Value("str", get_full_text_url(d))
           [] v.x = <<"get", "page", "text", "url">> -> Value("str", get_page_text_url(d, 1))
           [] v.x = <<"get", "page", "position", "json", "url">> ->
                  Value("str", get_page_position_json_url(d, 1))
           [] v.x = <<"get", "json", "text", "url">> -> Value("str", get_json_text_url(d))
           [] v.x = <<"get", "pdf", "url">> -> Value("str", get_pdf_url(d))
           [] v.x = <<"get", "image", "url">> -> Value("str", get_image_url(d, 1, "normal"))
           [] v.x = <<"get", "image", "url", "list">> ->
                  Value("list", get_image_url_list(d, "normal"))
    ELSE IF v.t = "partial"
    THEN IF v.x.list
         THEN Value("list", get_image_url_list(d, v.x.size))
         ELSE Value("str", get_image_url(d, 1, v.x.size))
    ELSE Value("TypeError", <<>>)

\* Calling a value without arguments.  The lambda of line 96 calls the
\* `_url` attribute and hands the URL to _get_url: a fetch to perform.
Call(d, v) ==
    IF v.t = "lambda"
    THEN LET u == CallPlain(d, v.x.inner)
         IN  IF u.t = "str" THEN Value("fetch", [url |-> u.x, fmt |-> v.x.fmt])
             ELSE Value("TypeError", <<>>)
    ELSE CallPlain(d, v)

RECURSIVE __getattr__(_, _, _)

\* getattr(self, name): the class and the instance first, then __getattr__.
getattr(d, name, depth) ==
    IF name \in MethodNames THEN Value("method", name)
    ELSE IF name \in StoredFields THEN Value("field", name)
    ELSE __getattr__(d, name, depth)

\* Document.__getattr__, lines 79-107; depth is the nesting left before
\* Python's recursion limit.
__getattr__(d, a, depth) ==
    IF depth = 0 THEN Value("RecursionError", <<>>)
    ELSE
    LET get     == startswith(a, "get")
        url     == endswith(a, <<"url">>)
        fmt     == fmt_of(a)
        getter  == IF get THEN Value("AttributeError", <<>>)
                   ELSE getattr(d, <<"get">> \o a, depth - 1)
        m_image == p_image_match(a)
    IN  IF getter.t = "RecursionError" THEN getter
        ELSE IF getter.t # "AttributeError" THEN Call(d, getter)
        ELSE LET target == IF url THEN Value("AttributeError", <<>>)
                           ELSE getattr(d, Append(a, "url"), depth - 1)
             IN  IF target.t = "RecursionError" THEN target
                 ELSE IF target.t # "AttributeError"
                 THEN Value("lambda", [inner |-> target, fmt |-> fmt])
                 ELSE IF m_image.matched
                 THEN Value("partial", [list |-> m_image.list, size |-> m_image.size])
                 ELSE Value("AttributeError", <<>>)

\* response.content of a GET: what is stored at the URL, or the error body.
content_at(url, status) == [url |-> url, status |-> status]

\* Lines 180-185: the decoding of a response.
decode(fmt, content) ==
    CASE fmt = "text" -> Value("text", content)
      [] fmt = "json" -> Value("json", content)
      [] OTHER        -> Value("bytes", content)

\* Variant: every asset is fetched through the authenticated client.
SameHost_Always(url) == netloc(url) = netloc(url)

\* Line 171: the request goes through the authenticated client.
SameHost(url) == netloc(<<base_uri>>) = netloc(url)

\* The outcome of reading an attribute, once no fetch is pending.
Settle(v) == IF v.t \in Errors THEN Raise(v.t) ELSE Return(v)

\* The caller reads attribute a of d and, when called is true, calls what
\* it got (document.get_full_text()).
ReadAttribute(d, a, called) ==
    /\ pc = "idle"
    /\ called => startswith(a, "get")
    /\ op' = "getattr"
    /\ document' = d
    /\ attr' = [name |-> a, called |-> called]
    /\ LET got == getattr(d, a, MaxLookups)
           v   == IF called /\ got.t \in Callables THEN Call(d, got) ELSE got
       IN  IF v.t = "fetch"
           THEN /\ fetch' = v.x
                /\ pc' = "get_url"
                /\ outcome' = outcome
           ELSE /\ fetch' = fetch
                /\ pc' = "done"
                /\ outcome' = Settle(v)
    /\ UNCHANGED <<requests, create_json, next_id, pdf, dirVars, propVars>>

\* Document._get_url, lines 167-185.
_get_url(status) ==
    /\ pc = "get_url"
    /\ requests' = Append(requests,
           Request("GET", fetch.url, <<>>, status, SameHost(fetch.url), <<>>, <<>>))
    /\ outcome' = IF SameHost(fetch.url) /\ raises_for_status(status)
                  THEN Raise("APIError")
                  ELSE Return(decode(fetch.fmt, content_at(fetch.url, status)))
    /\ pc' = "done"
    /\ UNCHANGED <<op, create_json, next_id, pdf, dirVars, attrVars, propVars>>

(***************************************************************************)
(* Document.mentions and Mention.                                          *)
(***************************************************************************)
\* Most page labels in a highlights mapping.
MaxLabels == 2

\* Most snippets under one label.
MaxSnippets == 2

\* Page labels, as tokens: "page_no_42", "page_no_page_no_3", "x_page_no_1".
Labels ==
    { <<"page_no_", "42">>, <<"page_no_", "page_no_", "3">>, <<"x_", "page_no_", "1">> }

Snippets == {"alpha", "beta"}

\* The highlights field: missing from the record, null, or a mapping from
\* labels to lists of (distinct) snippets, in the mapping's iteration order.
HighlightsFields ==
    {[present |-> FALSE, null |-> FALSE, items |-> <<>>],
     [present |-> TRUE,  null |-> TRUE,  items |-> <<>>]}
    \cup
    { [present |-> TRUE, null |-> FALSE,
       items |-> [k \in DOMAIN ls |-> [page |-> ls[k], texts |-> ts[k]]]] :
          <<ls, ts>> \in
              UNION { DistinctSeqs(Labels, n) \X
                          [1..n -> DistinctSeqs(Snippets, MaxSnippets)] :
                      n \in 0..MaxLabels } }

\* Variant: the page label is kept as it is.
Mention_KeepPrefix(page, text) ==
    [class |-> "Mention", page |-> page, text |-> text]

\* Mention.__init__, lines 583-590.
Mention(page, text) ==
    [class |-> "Mention",
     page  |-> IF page # <<>> /\ Head(page) = "page_no_" THEN Tail(page) ELSE page,
     text  |-> text]

\* hasattr(self, "highlights"): the stored field, or else __getattr__.
hasattr_highlights(d, h) ==
    h.present \/ getattr(d, <<"highlights">>, MaxLookups).t \notin Errors

\* Document.mentions, lines 130-139.
mentions(d, h) ==
    IF hasattr_highlights(d, h) /\ ~h.null
    THEN Flatten([k \in DOMAIN h.items |->
                     [n \in DOMAIN h.items[k].texts |->
                         Mention(h.items[k].page, h.items[k].texts[n])]])
    ELSE <<>>

\* The caller reads document.mentions, of a document whose highlights
\* field is h; mentions reads no other field.
ReadMentions(h) ==
    /\ pc = "idle"
    /\ op' = "mentions"
    /\ highlights' = h
    /\ outcome' = Return(Value("list[Mention]", mentions(document, h)))
    /\ pc' = "done"
    /\ UNCHANGED <<requests, create_json, next_id, pdf, dirVars, attrVars, lazyVars,
                   fmtVars>>

(***************************************************************************)
(* Document.__init__ and the lazy properties user and organization.        *)
(***************************************************************************)
\* Most reads of the two properties in one behaviour.
MaxAccesses == 3

\* dict_["user"] and dict_["organization"]: a raw id, or the embedded object.
UserValues == {Value("int", 3), Value("dict", [id |-> 3])}

OrganizationValues == {Value("int", 5), Value("dict", [id |-> 5])}

\* resource(client, value): a User or an Organization holding the record.
resource(class, value) == [class |-> class, fields |-> value]

\* Lines 63-68: the cached object and the id the constructor stores.
cached_of(class, value) ==
    IF value.t = "dict" THEN resource(class, value.x) ELSE None

id_of(value) == IF value.t = "dict" THEN value.x.id ELSE value.x

\* Document.__init__, lines 58-74.
__init__(u, o) ==
    /\ pc = "idle"
    /\ op' = "properties"
    /\ given' = [user |-> u, organization |-> o]
    /\ _user' = cached_of("User", u)
    /\ user_id' = id_of(u)
    /\ _organization' = cached_of("Organization", o)
    /\ organization_id' = id_of(o)
    /\ accesses' = <<>>
    /\ pc' = "ready"
    /\ UNCHANGED <<requests, outcome, create_json, next_id, pdf, dirVars, attrVars,
                   highlights, fmtVars>>

Access(name, fetched, result) == [name |-> name, fetched |-> fetched, result |-> result]

\* Document.user, lines 141-146: the read, up to the remote call.
user ==
    /\ pc = "ready"
    /\ Len(accesses) < MaxAccesses
    /\ IF _user = None
       THEN /\ pc' = "users_get"
            /\ UNCHANGED <<outcome, accesses>>
       ELSE /\ outcome' = Return(_user)
            /\ accesses' = Append(accesses, Access("user", FALSE, Return(_user)))
            /\ pc' = "ready"
    /\ UNCHANGED <<op, requests, create_json, next_id, pdf, dirVars, attrVars, highlights, fmtVars,
                   given, _user, user_id, _organization, organization_id>>

\* Variant: the fetched User is returned but not stored.
users_get_NoCache(status) ==
    /\ pc = "users_get"
    /\ LET url == <<base_uri, "users/", ToString(user_id), "/">>
           got == resource("User", [id |-> user_id])
       IN  /\ requests' = Append(requests,
                  Request("GET", url, <<>>, status, TRUE, <<>>, <<>>))
           /\ IF raises_for_status(status)
              THEN /\ outcome' = Raise("APIError")
                   /\ _user' = _user
              ELSE /\ outcome' = Return(got)
                   /\ _user' = _user
           /\ accesses' = Append(accesses, Access("user", TRUE, outcome'))
    /\ pc' = "ready"
    /\ UNCHANGED <<op, create_json, next_id, pdf, dirVars, attrVars, highlights, fmtVars,
                   given, user_id, _organization, organization_id>>

\* Line 145: self._client.users.get(self.user_id) and the assignment.
users_get(status) ==
    /\ pc = "users_get"
    /\ LET url == <<base_uri, "users/", ToString(user_id), "/">>
           got == resource("User", [id |-> user_id])
       IN  /\ requests' = Append(requests,
                  Request("GET", url, <<>>, status, TRUE, <<>>, <<>>))
           /\ IF raises_for_status(status)
              THEN /\ outcome' = Raise("APIError")
                   /\ _user' = _user
              ELSE /\ outcome' = Return(got)
                   /\ _user' = got
           /\ accesses' = Append(accesses, Access("user", TRUE, outcome'))
    /\ pc' = "ready"
    /\ UNCHANGED <<op, create_json, next_id, pdf, dirVars, attrVars, highlights, fmtVars,
                   given, user_id, _organization, organization_id>>

\* Document.organization, lines 148-153: the read, up to the remote call.
organization ==
    /\ pc = "ready"
    /\ Len(accesses) < MaxAccesses
    /\ IF _organization = None
       THEN /\ pc' = "organizations_get"
            /\ UNCHANGED <<outcome, accesses>>
       ELSE /\ outcome' = Return(_organization)
            /\ accesses' = Append(accesses,
                   Access("organization", FALSE, Return(_organization)))
            /\ pc' = "ready"
    /\ UNCHANGED <<op, requests, create_json, next_id, pdf, dirVars, attrVars, highlights, fmtVars,
                   given, _user, user_id, _organization, organization_id>>

\* Line 152: self._client.organizations.get(self.organization_id) and the
\* assignment.
organizations_get(status) ==
    /\ pc = "organizations_get"
    /\ LET url == <<base_uri, "organizations/", ToString(organization_id), "/">>
           got == resource("Organization", [id |-> organization_id])
       IN  /\ requests' = Append(requests,
                  Request("GET", url, <<>>, status, TRUE, <<>>, <<>>))
           /\ IF raises_for_status(status)
              THEN /\ outcome' = Raise("APIError")
                   /\ _organization' = _organization
              ELSE /\ outcome' = Return(got)
                   /\ _organization' = got
           /\ accesses' = Append(accesses, Access("organization", TRUE, outcome'))
    /\ pc' = "ready"
    /\ UNCHANGED <<op, create_json, next_id, pdf, dirVars, attrVars, highlights, fmtVars,
                   given, _user, user_id, organization_id>>

(***************************************************************************)
(* The specification.                                                      *)
(***************************************************************************)
Init ==
    /\ pc = "idle"
    /\ op = "none"
    /\ requests = <<>>
    /\ outcome = NoOutcome
    /\ directory = <<>>
    /\ handle_errors = FALSE
    /\ path_list = <<>>
    /\ groups = <<>>
    /\ i = 0
    /\ file_paths = <<>>
    /\ create_json = <<>>
    /\ j = 0
    /\ obj_list = <<>>
    /\ next_id = 1
    /\ log = <<>>
    /\ pdf = [kind |-> "none", name |-> <<>>, size |-> 0, fstat |-> TRUE]
    /\ document = [id |-> 0, slug |-> "", asset_url |-> "", page_count |-> 0]
    /\ attr = [name |-> <<>>, called |-> FALSE]
    /\ fetch = [url |-> <<>>, fmt |-> "None"]
    /\ highlights = [present |-> FALSE, null |-> FALSE, items |-> <<>>]
    /\ given = [user |-> Value("int", 0), organization |-> Value("int", 0)]
    /\ _user = None
    /\ user_id = 0
    /\ _organization = None
    /\ organization_id = 0
    /\ accesses = <<>>
    /\ args = [name |-> <<>>, kwargs |-> NoKwargs]
    /\ warnings = <<>>

Next ==
    \/ \E dir \in Directories, flag \in BOOLEAN : upload_directory(dir, flag)
    \/ \E status \in Statuses : CreateDocuments(status)
    \/ \E status \in Statuses : UploadFile(status)
    \/ \E status \in Statuses : ProcessDocuments(status)
    \/ \E p \in Pdfs : upload(p)
    \/ \E status \in Statuses : _upload_url(status)
    \/ \E status \in Statuses : UploadFileCreate(status)
    \/ \E status \in Statuses : UploadFilePut(status)
    \/ \E status \in Statuses : UploadFileProcess(status)
    \/ \E d \in Documents, a \in AttrNames, called \in BOOLEAN : ReadAttribute(d, a, called)
    \/ \E status \in Statuses : _get_url(status)
    \/ \E h \in HighlightsFields : ReadMentions(h)
    \/ \E u \in UserValues, o \in OrganizationValues : __init__(u, o)
    \/ user
    \/ \E status \in Statuses : users_get(status)
    \/ organization
    \/ \E status \in Statuses : organizations_get(status)
    \/ \E name \in Names, kwargs \in Kwargs : FormatUploadParameters(name, kwargs)

Spec == Init /\ [][Next]_vars

\* The code's sequential execution: a call that can take a step takes it
\* (every remote call blocks until it completes or its retries run out).
LiveSpec == Spec /\ WF_vars(Next)

(***************************************************************************)
(* Vocabulary of the properties.                                           *)
(***************************************************************************)
IsCreate(r) == r.method = "POST" /\ r.url = <<"documents/">>

IsProcess(r) == r.method = "POST" /\ r.url = <<"documents/process/">>

IsPut(r) == r.method = "PUT"

Failed(r) == r.status \notin {200}

CreatedOk(r) == IsCreate(r) /\ ~Failed(r)

InUploadDirectory == op = "upload_directory"

\* The create calls issued so far, and those that succeeded, in order.
Creates == SelectSeq(requests, IsCreate)

SuccessfulCreates == SelectSeq(requests, CreatedOk)

\* The content sniffer's verdict on a file: a supported canonical extension.
SniffedSupported(f) ==
    LET e == guess_extension(f.mime)
    IN  e # None /\ lower(e) \in supported_extensions

\* The file of the directory appears in a request.
Appears(f, r) == \E k \in DOMAIN r.files : r.files[k] = f.path

(***************************************************************************)
(* C1: in upload_directory a file appears in an outgoing request only if   *)
(* the content sniffer returns a supported canonical extension for it.     *)
(* The code filters on the file name's extension instead, so this fails.   *)
(***************************************************************************)
C1_OnlySniffedFilesAreSent ==
    InUploadDirectory =>
        \A n \in DOMAIN requests : \A f \in Range(directory) :
            Appears(f, requests[n]) => SniffedSupported(f)

(***************************************************************************)
(* C2: with handle_errors = false the first failing create, upload or      *)
(* process call is the last remote call of the run, and the run ends by    *)
(* raising, with no return value.                                          *)
(***************************************************************************)
C2_FailFastRaises ==
    (InUploadDirectory /\ ~handle_errors) =>
        /\ \A n \in DOMAIN requests :
               Failed(requests[n]) =>
                   /\ n = Len(requests)
                   /\ pc = "done"
                   /\ outcome.kind = "raise"
        /\ (outcome.kind = "raise") =>
               (requests # <<>> /\ Failed(Last(requests)))

\* A fail-fast run whose second group's create call failed.
C2_Witness ==
    /\ InUploadDirectory /\ ~handle_errors
    /\ outcome.kind = "raise"
    /\ \E n \in DOMAIN requests :
           /\ IsCreate(requests[n]) /\ Failed(requests[n]) /\ requests[n].batch = 2
           /\ \E m \in 1..(n - 1) : IsPut(requests[m])

C4_FailedBatchOnlyAborted ==
    (InUploadDirectory /\ handle_errors) =>
        \A n \in DOMAIN requests :
            LET r == requests[n]
            IN  (Failed(r) /\ (IsCreate(r) \/ IsProcess(r))) =>
                    /\ \A m \in DOMAIN requests : m > n => requests[m].batch > r.batch
                    /\ IsCreate(r) =>
                           \A m \in DOMAIN requests : m < n => requests[m].batch < r.batch
                    /\ \A m \in DOMAIN requests : requests[m].method \in {"POST", "PUT"}
                    /\ n < Len(requests) =>
                           /\ IsCreate(requests[n + 1])
                           /\ requests[n + 1].batch = r.batch + 1
                    /\ pc = "done" =>
                           \A b \in (r.batch + 1)..Len(groups) :
                               \E m \in DOMAIN requests :
                                   IsCreate(requests[m]) /\ requests[m].batch = b

\* A resilient run, finished, whose first group's create call failed and
\* whose second group was created, and one whose process call failed.
C4_Witness ==
    /\ InUploadDirectory /\ handle_errors /\ pc = "done"
    /\ Len(groups) >= 2
    /\ \E n \in DOMAIN requests :
           IsCreate(requests[n]) /\ Failed(requests[n]) /\ requests[n].batch = 1
    /\ \E n \in DOMAIN requests :
           IsProcess(requests[n]) /\ Failed(requests[n]) /\ requests[n].batch = 2

(***************************************************************************)
(* C5: with handle_errors = true, when the storage upload of one item of a *)
(* group fails, every item of the group still has its upload attempted     *)
(* once, and the group's process call is issued afterwards with the ids of *)
(* all records the group's create call returned, the failed item's too.    *)
(***************************************************************************)
C5_SiblingUploadsContinue ==
    (InUploadDirectory /\ handle_errors) =>
        \A n \in DOMAIN requests :
            LET r == requests[n]
                finished == pc = "done" \/ i > r.batch
            IN  (IsPut(r) /\ Failed(r) /\ finished) =>
                    LET c == CHOOSE q \in Range(requests) :
                                 IsCreate(q) /\ q.batch = r.batch
                        puts == {m \in DOMAIN requests :
                                    IsPut(requests[m]) /\ requests[m].batch = r.batch}
                    IN  /\ \A k \in DOMAIN c.files :
                               Cardinality({m \in puts : requests[m].files = <<c.files[k]>>}) = 1
                        /\ \E m \in DOMAIN requests :
                               /\ IsProcess(requests[m])
                               /\ requests[m].batch = r.batch
                               /\ \A u \in puts : u < m
                               /\ requests[m].json = [k \in DOMAIN c.response |-> c.response[k].id]
                               /\ \E k \in DOMAIN c.response :
                                      /\ c.response[k].presigned_url = r.url
                                      /\ c.response[k].id \in Range(requests[m].json)

\* A finished resilient run in which the first upload of a full group failed.
C5_Witness ==
    /\ InUploadDirectory /\ handle_errors /\ pc = "done"
    /\ \E n \in DOMAIN requests :
           /\ IsPut(requests[n]) /\ Failed(requests[n])
           /\ IsCreate(requests[n - 1])
           /\ Len(requests[n - 1].files) = BULK_LIMIT
           /\ BULK_LIMIT > 1

(***************************************************************************)
(* C6: whenever upload_directory returns, its result is the concatenation, *)
(* in call order, of the records of every create call that succeeded       *)
(* (whatever became of their uploads and of their process call), one       *)
(* record per file of those groups and none for a group whose create call  *)
(* failed.                                                                 *)
(***************************************************************************)
C6_ResultIsAllCreatedRecords ==
    (InUploadDirectory /\ pc = "done" /\ outcome.kind = "return") =>
        LET ok      == SuccessfulCreates
            records == Flatten([k \in DOMAIN ok |-> ok[k].response])
            sent    == Flatten([k \in DOMAIN ok |-> ok[k].files])
        IN  /\ Len(outcome.value) = Len(records)
            /\ Len(records) = Len(sent)
            /\ \A k \in DOMAIN records :
                   /\ outcome.value[k].class = "Document"
                   /\ outcome.value[k].fields = records[k]
                   /\ records[k].title = _get_title(sent[k])

\* A returned run with a failed create call, a failed upload and a failed
\* process call, and records of two groups in its result.
C6_Witness ==
    /\ InUploadDirectory /\ pc = "done" /\ outcome.kind = "return"
    /\ Len(outcome.value) > 1
    /\ Len(SuccessfulCreates) > 1
    /\ \E b, c \in DOMAIN requests :
           /\ IsPut(requests[b]) /\ Failed(requests[b])
           /\ IsProcess(requests[c]) /\ Failed(requests[c])

(***************************************************************************)
(* C7: when upload_directory returns, it has issued ceil(N / BULK_LIMIT)   *)
(* create calls for the N files kept by its filter; their items,           *)
(* concatenated in call order, are those files in discovery order; every   *)
(* call but the last has BULK_LIMIT items, none has more, and no padding   *)
(* value is in a request body.                                             *)
(***************************************************************************)
C7_BatchesPartitionSurvivors ==
    (InUploadDirectory /\ pc = "done" /\ outcome.kind = "return") =>
        LET N == Len(path_list)
        IN  /\ Len(Creates) * BULK_LIMIT >= N
            /\ (Len(Creates) - 1) * BULK_LIMIT < N \/ (N = 0 /\ Creates = <<>>)
            /\ Flatten([k \in DOMAIN Creates |-> Creates[k].files]) = path_list
            /\ \A k \in DOMAIN Creates :
                   /\ Len(Creates[k].json) = Len(Creates[k].files)
                   /\ Len(Creates[k].json) <= BULK_LIMIT
                   /\ k < Len(Creates) => Len(Creates[k].json) = BULK_LIMIT
                   /\ \A m \in DOMAIN Creates[k].files :
                          /\ Creates[k].files[m] # None
                          /\ Creates[k].json[m].title # None
                          /\ Creates[k].json[m].title = _get_title(Creates[k].files[m])

\* A returned run over more files than one group holds, the last group short.
C7_Witness ==
    /\ InUploadDirectory /\ pc = "done" /\ outcome.kind = "return"
    /\ Len(path_list) > BULK_LIMIT
    /\ Len(path_list) % BULK_LIMIT # 0
    /\ Len(Creates) > 1

(***************************************************************************)
(* C8: a remote call whose final status is not a success surfaces, by      *)
(* default, as a transport error carrying the status; the operation never  *)
(* returns normally after it.  The code does not look at the response of   *)
(* the storage PUT of the single-file path nor at that of an anonymous     *)
(* asset GET, so this fails.                                               *)
(***************************************************************************)
C8_NonSuccessSurfaces ==
    (pc = "done" /\ ~(InUploadDirectory /\ handle_errors)) =>
        \A n \in DOMAIN requests :
            Failed(requests[n]) => outcome = Raise("APIError")

(***************************************************************************)
(* C9: for each core asset X of full_text, page_text, json_text and pdf,   *)
(* X_url, get_X_url(), X and get_X() resolve without a resolution failure; *)
(* X_url and get_X_url() are the URL of X's template, and X and get_X()    *)
(* are the content of one GET of exactly that URL, decoded in X's format.  *)
(***************************************************************************)
CoreAssets == {<<"full", "text">>, <<"page", "text">>, <<"json", "text">>, <<"pdf">>}

\* The URL of a core asset, from the templates of the specification.
CoreUrl(d, x) ==
    LET base == <<d.asset_url, "documents/", ToString(d.id)>>
    IN  CASE x = <<"full", "text">> -> base \o <<"/", d.slug, ".txt">>
          [] x = <<"page", "text">> -> base \o <<"/pages/", d.slug, "-p", "1", ".txt">>
          [] x = <<"json", "text">> -> base \o <<"/", d.slug, ".txt.json">>
          [] x = <<"pdf">>          -> base \o <<"/", d.slug, ".pdf">>

\* The decoded type of a core asset.
CoreType(x) ==
    CASE x \in {<<"full", "text">>, <<"page", "text">>} -> "text"
      [] x = <<"json", "text">> -> "json"
      [] x = <<"pdf">>          -> "bytes"

C9_CoreAccessorsConsistent ==
    \A x \in CoreAssets :
        LET u == CoreUrl(document, x)
            isUrl  == \/ attr = [name |-> Append(x, "url"), called |-> FALSE]
                      \/ attr = [name |-> <<"get">> \o Append(x, "url"), called |-> TRUE]
            isBody == \/ attr = [name |-> x, called |-> FALSE]
                      \/ attr = [name |-> <<"get">> \o x, called |-> TRUE]
        IN  op = "getattr" =>
                /\ isUrl => /\ pc = "done"
                            /\ requests = <<>>
                            /\ outcome = Return(Value("str", u))
                /\ isBody =>
                       /\ outcome.kind = "raise" => outcome.value = "APIError"
                       /\ pc = "get_url" => requests = <<>>
                       /\ pc = "done" =>
                              /\ Len(requests) = 1
                              /\ requests[1].method = "GET" /\ requests[1].url = u
                              /\ outcome.kind = "return" =>
                                     outcome.value =
                                         Value(CoreType(x), content_at(u, requests[1].status))

\* json_text read as a property, fetched and decoded.
C9_Witness ==
    /\ op = "getattr" /\ pc = "done"
    /\ attr = [name |-> <<"json", "text">>, called |-> FALSE]
    /\ outcome.kind = "return"
    /\ Len(requests) = 1 /\ requests[1].status = 200

(***************************************************************************)
(* C10: every attribute read ends in one outcome, and a name that is       *)
(* neither a stored field nor a name of the accessor grammar ends in an    *)
(* attribute-not-found failure without any HTTP request.  Reading `asset`  *)
(* yields a callable instead (asset_url is a stored field), so this fails. *)
(***************************************************************************)
\* The names of the accessor grammar: an optional get_, an asset name, and
\* optional _url and _list.
AssetStems ==
    CoreAssets \cup {<<"page", "position", "json">>, <<"image">>}
               \cup {<<size, "image">> : size \in Sizes_image}

GrammarNames ==
    { p \o st \o su : p \in {<<>>, <<"get">>}, st \in AssetStems,
                      su \in {<<>>, <<"url">>, <<"list">>, <<"url", "list">>} }

C10_UnknownNamesFail ==
    (op = "getattr" /\ attr.name \notin StoredFields /\ attr.name \notin GrammarNames) =>
        /\ pc = "done"
        /\ requests = <<>>
        /\ outcome = Raise("AttributeError")

(***************************************************************************)
(* C11: for every size of thumbnail, small, normal and large and every     *)
(* document, {size}_image_url_list (and get_{size}_image_url_list()) is    *)
(* the list of page_count URLs whose i-th element, from 1, is              *)
(* {asset_url}documents/{id}/pages/{slug}-p{i}-{size}.gif; it is empty     *)
(* when page_count is 0, and no request is issued.                         *)
(***************************************************************************)
\* The image URL of a page, from the template of the specification.
ImageUrl(d, page, size) ==
    <<d.asset_url, "documents/", ToString(d.id), "/pages/", d.slug, "-p",
      ToString(page), "-", size, ".gif">>

C11_ImageUrlListPerPage ==
    \A size \in {"thumbnail", "small", "normal", "large"} :
        (/\ op = "getattr"
         /\ \/ attr = [name |-> <<size, "image", "url", "list">>, called |-> FALSE]
            \/ attr = [name |-> <<"get", size, "image", "url", "list">>, called |-> TRUE]) =>
            /\ pc = "done"
            /\ requests = <<>>
            /\ outcome.kind = "return"
            /\ outcome.value.t = "list"
            /\ Len(outcome.value.x) = document.page_count
            /\ \A page \in 1..document.page_count :
                   outcome.value.x[page] = ImageUrl(document, page, size)

\* The thumbnail list of a document of several pages.
C11_Witness ==
    /\ op = "getattr" /\ pc = "done"
    /\ attr = [name |-> <<"thumbnail", "image", "url", "list">>, called |-> FALSE]
    /\ document.page_count > 1
    /\ outcome.kind = "return"
    /\ Len(outcome.value.x) = document.page_count

(***************************************************************************)
(* C12, as stated: a single-file upload of a local file, given as a path   *)
(* or as a file object, whose size exceeds the cap raises a validation     *)
(* error before any network call.  For a file object whose os.fstat fails  *)
(* the code takes the size to be 0 and uploads it, so this fails.          *)
(***************************************************************************)
\* The cap of the single-file path, in bytes.
SizeCap == 501 * 1024 * 1024

IsLocalUpload == op = "upload" /\ pdf.kind \in {"path", "file"}

RejectedUnsent ==
    /\ pc = "done"
    /\ outcome = Raise("ValueError")
    /\ requests = <<>>

C12_Original_OversizeRejected ==
    (IsLocalUpload /\ pdf.size > SizeCap) => RejectedUnsent

(***************************************************************************)
(* C12, amended: a single-file upload of a local file given as a path, or  *)
(* as a file object whose size os.fstat reports, whose size exceeds the    *)
(* cap raises a validation error before any network call; upload_directory *)
(* applies no size check: it never raises the validation error, and when   *)
(* it returns every file its filter kept, whatever its size, was sent in a *)
(* create call.                                                            *)
(***************************************************************************)
C12_OversizeRejected ==
    /\ (IsLocalUpload /\ pdf.size > SizeCap /\ (pdf.kind = "file" => pdf.fstat)) =>
           RejectedUnsent
    /\ InUploadDirectory =>
           /\ outcome # Raise("ValueError")
           /\ (pc = "done" /\ outcome.kind = "return") =>
                  \A f \in Range(directory) :
                      KeepFile(f.path) =>
                          \E n \in DOMAIN requests :
                              IsCreate(requests[n]) /\ Appears(f, requests[n])

\* An open file over the cap, rejected with nothing sent.
C12_Witness ==
    /\ IsLocalUpload /\ pdf.kind = "file" /\ pdf.fstat
    /\ pdf.size > SizeCap
    /\ RejectedUnsent

(***************************************************************************)
(* C13: the mentions of a document are one Mention per (page label,        *)
(* snippet) pair of its highlights, in the mapping's iteration order and,  *)
(* under a label, in the order of the snippets; the page of a Mention is   *)
(* the label without a leading "page_no_", its text the snippet unchanged; *)
(* the list is empty when the highlights are missing or null.              *)
(***************************************************************************)
StripPageNo(label) ==
    IF Len(label) >= 1 /\ label[1] = "page_no_"
    THEN SubSeq(label, 2, Len(label))
    ELSE label

RECURSIVE PairsOf(_)
\* The (page, text) pairs of a mapping, label by label.
PairsOf(items) ==
    IF items = <<>> THEN <<>>
    ELSE [n \in 1..Len(items[1].texts) |->
             [page |-> StripPageNo(items[1].page), text |-> items[1].texts[n]]]
         \o PairsOf(Tail(items))

C13_MentionsFollowHighlights ==
    op = "mentions" =>
        /\ pc = "done" /\ outcome.kind = "return" /\ requests = <<>>
        /\ outcome.value.t = "list[Mention]"
        /\ LET ms     == outcome.value.x
               expect == IF highlights.present /\ ~highlights.null
                         THEN PairsOf(highlights.items) ELSE <<>>
           IN  /\ Len(ms) = Len(expect)
               /\ \A n \in 1..Len(ms) :
                      /\ ms[n].class = "Mention"
                      /\ ms[n].page = expect[n].page
                      /\ ms[n].text = expect[n].text

\* Two labels, the first prefixed and with two snippets: three mentions.
C13_Witness ==
    /\ op = "mentions" /\ pc = "done"
    /\ Len(highlights.items) = 2
    /\ highlights.items[1].page = <<"page_no_", "42">>
    /\ highlights.items[1].texts = <<"beta", "alpha">>
    /\ Len(highlights.items[2].texts) = 1
    /\ Len(outcome.value.x) = 3
    /\ outcome.value.x[1].page = <<"42">>

(***************************************************************************)
(* C14, as stated: for a field given as a raw id, over any sequence of     *)
(* reads exactly one fetch is issued, on the first read.  A fetch that     *)
(* fails leaves the cache unset and the next read fetches again.           *)
(***************************************************************************)
LazyFields == {"user", "organization"}

Cached(name) == IF name = "user" THEN _user ELSE _organization

IsFetchOf(r, name) ==
    /\ r.method = "GET"
    /\ Len(r.url) = 4
    /\ r.url[1] = base_uri
    /\ r.url[2] = (IF name = "user" THEN "users/" ELSE "organizations/")

FetchesOf(name) == {n \in DOMAIN requests : IsFetchOf(requests[n], name)}

AccessesOf(name) == {k \in DOMAIN accesses : accesses[k].name = name}

C14_Original_ExactlyOneFetch ==
    \A name \in LazyFields :
        (op = "properties" /\ given[name].t = "int" /\ AccessesOf(name) # {}) =>
            /\ Cardinality(FetchesOf(name)) = 1
            /\ \A k \in AccessesOf(name) :
                   accesses[k].fetched <=> (\A m \in AccessesOf(name) : k <= m)

(***************************************************************************)
(* C14, amended: for a field given as a raw id the cached object is unset  *)
(* until the first read; a read made while the cache is unset issues one   *)
(* fetch, and a failed fetch raises and leaves the cache unset; once a     *)
(* fetch has succeeded every later read returns the cached object without  *)
(* a remote call, so at most one fetch succeeds and it is the last one;    *)
(* for a field given as the embedded object no fetch is ever issued.       *)
(***************************************************************************)
C14_LazyFetchCachedOnSuccess ==
    op = "properties" =>
        \A name \in LazyFields :
            LET raw == given[name].t = "int"
                ok  == {n \in FetchesOf(name) : ~raises_for_status(requests[n].status)}
            IN  /\ (raw /\ AccessesOf(name) = {}) => Cached(name) = None
                /\ ~raw => /\ FetchesOf(name) = {}
                           /\ Cached(name).fields = given[name].x
                /\ Cardinality(FetchesOf(name)) =
                       Cardinality({k \in AccessesOf(name) : accesses[k].fetched})
                /\ Cardinality(ok) <= 1
                /\ \A n \in ok : \A m \in FetchesOf(name) : m <= n
                /\ \A k \in AccessesOf(name) :
                       /\ accesses[k].result.kind = "raise" =>
                              accesses[k].fetched
                       /\ accesses[k].result.kind = "return" =>
                              /\ accesses[k].result.value = Cached(name)
                              /\ accesses[k].result.value.fields.id = id_of(given[name])
                              /\ \A m \in AccessesOf(name) :
                                     m > k => /\ ~accesses[m].fetched
                                              /\ accesses[m].result = accesses[k].result

\* A raw id read three times: the first fetch fails, the second succeeds,
\* the third read is served from the cache.
C14_Witness ==
    /\ op = "properties" /\ pc = "ready"
    /\ given.user.t = "int"
    /\ Len(accesses) = 3
    /\ \A k \in 1..3 : accesses[k].name = "user"
    /\ accesses[1].fetched /\ accesses[1].result.kind = "raise"
    /\ accesses[2].fetched /\ accesses[2].result.kind = "return"
    /\ ~accesses[3].fetched /\ accesses[3].result = accesses[2].result
    /\ Len(requests) = 2

(***************************************************************************)
(* C15, as stated: an asset fetch goes through the authenticated client    *)
(* if and only if the host of the asset URL is the host of the API base    *)
(* URI.  The code compares urlparse().netloc, which holds the port too: an *)
(* asset on the API's host at another port is fetched anonymously.         *)
(***************************************************************************)
\* urlparse(url).hostname of the first piece of a URL.
HostOf(url) ==
    CASE url[1] \in {"https://api.example.org/api/", "https://api.example.org/files/",
                     "https://api.example.org:8443/"} -> "api.example.org"
      [] url[1] = "https://assets.example.org/"        -> "assets.example.org"
      [] OTHER                                         -> "?"

IsAssetFetch(r) == op = "getattr" /\ r.method = "GET"

ApiLocations == {"https://api.example.org/api/", "https://api.example.org/files/"}

Stage(r) == IF IsCreate(r) THEN 1 ELSE IF IsPut(r) THEN 2 ELSE 3

C16_StagesSequentialMonotonic ==
    InUploadDirectory =>
        /\ requests # <<>> => IsCreate(requests[1]) /\ requests[1].batch = 1
        /\ \A n \in DOMAIN requests :
               IsCreate(requests[n]) \/ IsPut(requests[n]) \/ IsProcess(requests[n])
        /\ \A n \in 1..(Len(requests) - 1) :
               LET r == requests[n]
                   q == requests[n + 1]
               IN  IF q.batch = r.batch
                   THEN /\ ~IsCreate(q)
                        /\ Stage(r) <= Stage(q)
                        /\ ~IsProcess(r)
                        /\ ~Failed(r) \/ IsPut(r)
                   ELSE /\ q.batch = r.batch + 1
                        /\ IsCreate(q)
                        /\ IsProcess(r) \/ (IsCreate(r) /\ Failed(r))
        /\ \A n, m \in DOMAIN requests :
               (n # m /\ requests[n].batch = requests[m].batch) =>
                   /\ ~(IsCreate(requests[n]) /\ IsCreate(requests[m]))
                   /\ ~(IsProcess(requests[n]) /\ IsProcess(requests[m]))
                   /\ (IsPut(requests[n]) /\ IsPut(requests[m])) =>
                          /\ requests[n].files # requests[m].files
                          /\ requests[n].url # requests[m].url
        /\ \A n, m \in DOMAIN requests :
               (n # m /\ IsPut(requests[n]) /\ IsPut(requests[m])) =>
                   /\ requests[n].files # requests[m].files
                   /\ requests[n].url # requests[m].url

\* A returned run of at least two groups, the first one full.
C16_Witness ==
    /\ InUploadDirectory /\ pc = "done" /\ outcome.kind = "return"
    /\ BULK_LIMIT > 1
    /\ Len(requests) >= BULK_LIMIT + 5
    /\ IsProcess(requests[BULK_LIMIT + 2])
    /\ IsCreate(requests[BULK_LIMIT + 3])
    /\ IsProcess(requests[Len(requests)])

(***************************************************************************)
(* C17, as stated: in every group whose create call succeeded, the i-th    *)
(* file is PUT to, and only to, the presigned URL of the i-th record, so   *)
(* every item of the group has an upload attempted.  With handle_errors =  *)
(* false a failed upload ends the run: the items after it are never sent.  *)
(***************************************************************************)
\* The group of a request is over: the run has ended or gone past it.
GroupOver(r) == pc = "done" \/ i > r.batch

PutsOf(c, k) ==
    {m \in DOMAIN requests :
        /\ IsPut(requests[m])
        /\ requests[m].files = <<c.files[k]>>
        /\ requests[m].url = c.response[k].presigned_url}

\* Every PUT of the group of c carries the k-th file to the k-th URL, for some k.
PairedPuts(c) ==
    \A m \in DOMAIN requests :
        (IsPut(requests[m]) /\ requests[m].batch = c.batch) =>
            \E k \in DOMAIN c.files : m \in PutsOf(c, k)

C17_Original_EveryItemUploaded ==
    InUploadDirectory =>
        \A n \in DOMAIN requests :
            LET c == requests[n]
            IN  (CreatedOk(c) /\ GroupOver(c)) =>
                    /\ PairedPuts(c)
                    /\ \A k \in DOMAIN c.files : Cardinality(PutsOf(c, k)) = 1

(***************************************************************************)
(* C17, amended: in every group whose create call succeeded, each PUT      *)
(* carries the i-th file to, and only to, the presigned URL of the i-th    *)
(* record of that group's create response, PUTs go in the order of the     *)
(* items and no item is sent twice; every item has its upload attempted    *)
(* once the group reaches its process call or the run is resilient, while  *)
(* with handle_errors = false a failed upload ends the run and leaves the  *)
(* items after it unsent.                                                  *)
(***************************************************************************)
C17_FilesGoToOwnTargets ==
    InUploadDirectory =>
        /\ \A m \in DOMAIN requests :
               IsPut(requests[m]) =>
                   \E n \in 1..(m - 1) :
                       /\ CreatedOk(requests[n])
                       /\ requests[n].batch = requests[m].batch
        /\ \A n \in DOMAIN requests :
               LET c == requests[n]
                   processed == \E m \in DOMAIN requests :
                                    IsProcess(requests[m]) /\ requests[m].batch = c.batch
               IN  CreatedOk(c) =>
                       /\ Len(c.response) = Len(c.files)
                       /\ PairedPuts(c)
                       /\ \A k \in DOMAIN c.files :
                              /\ Cardinality(PutsOf(c, k)) <= 1
                              /\ (k > 1 /\ PutsOf(c, k) # {}) => PutsOf(c, k - 1) # {}
                              /\ (processed \/ (handle_errors /\ GroupOver(c))) =>
                                     Cardinality(PutsOf(c, k)) = 1
                              /\ (GroupOver(c) /\ PutsOf(c, k) = {}) =>
                                     /\ ~handle_errors
                                     /\ outcome.kind = "raise"
                                     /\ IsPut(Last(requests)) /\ Failed(Last(requests))

\* A full group whose files all went to their own URLs and was processed.
C17_Witness ==
    /\ InUploadDirectory /\ BULK_LIMIT > 1
    /\ \E n \in DOMAIN requests :
           /\ CreatedOk(requests[n])
           /\ Len(requests[n].files) = BULK_LIMIT
           /\ \A k \in DOMAIN requests[n].files :
                  Cardinality(PutsOf(requests[n], k)) = 1
           /\ \E m \in DOMAIN requests :
                  IsProcess(requests[m]) /\ requests[m].batch = requests[n].batch

(***************************************************************************)
(* C18, as stated: for every size in {thumbnail, small, normal, large},    *)
(* each of {size}_image, {size}_image_url, {size}_image_list and           *)
(* {size}_image_url_list, with or without a leading get_, resolves without *)
(* a resolution failure.  The pattern of __getattr__ has no {size}_image_  *)
(* list form and __dir__ does not list one: these names fail.              *)
(***************************************************************************)
ImageSizes == {"thumbnail", "small", "normal", "large"}

ImageSuffixes == {<<>>, <<"url">>, <<"list">>, <<"url", "list">>}

ImageNames(suffixes) ==
    { g \o <<size, "image">> \o su :
          g \in {<<>>, <<"get">>}, size \in ImageSizes, su \in suffixes }

ResolutionFailed == outcome.kind = "raise" /\ outcome.value \in Errors

C18_Original_AllImageNamesResolve ==
    (op = "getattr" /\ attr.name \in ImageNames(ImageSuffixes)) => ~ResolutionFailed

(***************************************************************************)
(* C18, amended: for every size in {thumbnail, small, normal, large}, each *)
(* of {size}_image, {size}_image_url and {size}_image_url_list, with or    *)
(* without a leading get_, resolves without a resolution failure, read or  *)
(* called; {size}_image_list and get_{size}_image_list are not names of a  *)
(* document and fail.                                                      *)
(***************************************************************************)
C18_ListedImageNamesResolve ==
    op = "getattr" =>
        /\ attr.name \in ImageNames({<<>>, <<"url">>, <<"url", "list">>}) =>
               /\ ~ResolutionFailed
               /\ pc = "done" => outcome.kind # "none"
        /\ attr.name \in ImageNames({<<"list">>}) =>
               /\ pc = "done"
               /\ outcome = Raise("AttributeError")
               /\ requests = <<>>

\* get_large_image(), called: the image is fetched and returned.
C18_Witness ==
    /\ op = "getattr" /\ pc = "done"
    /\ attr = [name |-> <<"get", "large", "image">>, called |-> TRUE]
    /\ outcome.kind = "return"
    /\ outcome.value.t = "bytes"
    /\ Len(requests) = 1

(***************************************************************************)
(* C19: for any name and keyword arguments, _format_upload_parameters      *)
(* returns a mapping that always has `title` (the title argument if given, *)
(* else the last path component of the name without its last extension),   *)
(* has `projects` equal to [project] when `project` is given and           *)
(* `projects` is not, holds every keyword argument of the allowed list     *)
(* unchanged, and has no other key: unknown arguments and `secure` are     *)
(* dropped, `secure` with a warning.                                       *)
(***************************************************************************)
AllowedKeys ==
    { "access", "description", "language", "original_extension", "related_article",
      "publish_at", "published_url", "source", "title", "data", "force_ocr",
      "projects", "delayed_index" }

\* The last path component of each name, without its last extension.
ExpectedTitle(name) ==
    CASE name = <<"tests", "/", "test", ".", "pdf">> -> <<"test">>
      [] name = <<"a", ".", "tar", ".", "gz">>        -> <<"a", ".", "tar">>
      [] name = <<"README">>                          -> <<"README">>
      [] name = <<"docs", ".", "d", "/", "x">>        -> <<"x">>

C19_FormatUploadParameters ==
    op = "format" =>
        /\ pc = "done" /\ outcome.kind = "return" /\ requests = <<>>
        /\ LET params == outcome.value
               kw     == args.kwargs
               given_ == DOMAIN kw
           IN  /\ "title" \in DOMAIN params
               /\ params["title"] = (IF "title" \in given_ THEN kw["title"]
                                     ELSE ExpectedTitle(args.name))
               /\ ("project" \in given_ /\ "projects" \notin given_) =>
                      /\ "projects" \in DOMAIN params
                      /\ params["projects"] = <<kw["project"]>>
               /\ \A k \in AllowedKeys \cap given_ :
                      k \in DOMAIN params /\ params[k] = kw[k]
               /\ \A k \in DOMAIN params :
                      \/ k = "title"
                      \/ k \in AllowedKeys \cap given_
                      \/ k = "projects" /\ "project" \in given_
               /\ DOMAIN params \cap {"secure", "foo", "project"} = {}
               /\ warnings = (IF "secure" \in given_ THEN <<"secure">> ELSE <<>>)

\* The call of the test suite: access, secure, project and an unknown argument.
C19_Witness ==
    /\ op = "format" /\ pc = "done"
    /\ args.name = <<"tests", "/", "test", ".", "pdf">>
    /\ DOMAIN args.kwargs = {"access", "secure", "project", "foo"}
    /\ outcome.value =
           [title |-> <<"test">>, access |-> <<"private">>, projects |-> <<2>>]
    /\ warnings = <<"secure">>

====
